---- MODULE Spec2Model ----
(***************************************************************************)
(* Model of the Cassandra access layer of the Messenger backend            *)
(* (app/models/cassandra_models.py) over the schema of scripts/setup_db.py.*)
(*                                                                         *)
(* The store is four tables.  Every `await cassandra_client.execute(...)` *)
(* is one atomic round trip; a handler is a sequence of round trips, and   *)
(* handlers of different callers interleave between round trips.           *)
(***************************************************************************)
EXTENDS Integers, Sequences, FiniteSets, TLC

(* ------------------------------ bounds --------------------------------- *)
\* A run starts at most MaxCalls writing calls (create_message,
\* create_conversation, create_or_get_conversation) and script runs, so ids
\* stay in 1..MaxCalls.
MaxCalls == 2
\* datetime.now() yields the values 1..MaxTime, in ticks of the clock.
MaxTime == 2
\* At most MaxFailures round trips raise in a run.
MaxFailures == 1

Procs == {1, 2}
Users == {1, 2}
\* conversation ids a caller may pass to the message handlers
ConvArgs == {1, 2}
\* the arguments callers pass to create_message:
\* <<conversation_id, sender_id, receiver_id, content>>
MessageArgs == {<<1, 1, 2, "hi">>, <<1, 2, 1, "yo">>, <<2, 1, 2, "yo">>, <<2, 1, 1, "hi">>}
\* the arguments callers pass to create_conversation: <<sender_id, receiver_id>>
CreateArgs == {<<1, 2>>, <<2, 1>>}
\* the arguments callers pass to create_or_get_conversation: <<user1_id, user2_id>>
UserPairs == {<<1, 2>>, <<2, 1>>, <<1, 1>>}
\* the timestamps a caller may pass to get_messages_before_timestamp
BeforeArgs == 2..MaxTime + 2
Pages == {1, 2}
Limits == {1, 2}
\* limit: int = 20, the default page size of the listing handlers
DefaultLimit == 20
\* scripts/generate_test_data.py: the test data configuration
NUM_USERS == 10
NUM_CONVERSATIONS == 15
MAX_MESSAGES_PER_CONVERSATION == 50
\* A run of the script is followed through its first MaxScriptConversations
\* conversations; the statements after them are not explored.
MaxScriptConversations == 1
\* The draws of the script are explored up to these bounds: user ids up to
\* MaxDrawnUser, days up to MaxDrawnDays, message counts up to MaxDrawnCount,
\* minutes up to MaxDrawnMinutes.
MaxDrawnUser == 3
MaxDrawnDays == 1
MaxDrawnCount == 2
MaxDrawnMinutes == 2
\* random.randint(1, NUM_USERS)
TestUsers == {u \in 1..NUM_USERS : u <= MaxDrawnUser}
\* random.randint(0, 30)
TestDays == {d \in 0..30 : d <= MaxDrawnDays}
\* random.randint(1, MAX_MESSAGES_PER_CONVERSATION)
TestCounts == {n \in 1..MAX_MESSAGES_PER_CONVERSATION : n <= MaxDrawnCount}
\* random.randint(1, 1000)
TestMinutes == {m \in 1..1000 : m <= MaxDrawnMinutes}
\* f"Last message in conversation {conversation_id}"
TestLastMessage(conversation_id) ==
    "Last message in conversation " \o ToString(conversation_id)
\* f"Message {message_id} in conversation {conversation_id}"
TestContent(message_id, conversation_id) ==
    "Message " \o ToString(message_id) \o " in conversation "
        \o ToString(conversation_id)
\* A TIMESTAMP column keeps milliseconds, datetime.now() has microseconds:
\* the clock ticks TicksPerMilli times in one unit of a stored timestamp.
TicksPerMilli == 2
\* timedelta(minutes=1) and timedelta(days=1) in ticks
MinuteTicks == 60 * 1000 * TicksPerMilli
DayTicks == 24 * 60 * MinuteTicks

\* scripts/setup_db.py: the DROP TABLE statements name the keyspace messenger;
\* the session and the CREATE TABLE statements use
\* CASSANDRA_KEYSPACE = os.getenv("CASSANDRA_KEYSPACE", "messenger").  "chat"
\* stands for any other name.
DroppedKeyspace == "messenger"
Keyspaces == {"messenger", "chat"}
TableNames == {"indexes", "messages", "user_conversations", "conversations"}

\* Python's None in a text column / in a dict position
NoneText == "None"
None == [none |-> TRUE]

VARIABLES
    indexes,             \* table indexes: index_name -> counter value (present rows only)
    messages,            \* table messages: set of rows
    user_conversations,  \* table user_conversations (conversation summaries)
    conversations,       \* table conversations (conversation identities)
    ring,                \* partitioner (token) order of the conversation_id
                         \* partitions written so far
    dropped,             \* the tables that do not exist: dropped by the setup
                         \* script and not yet created again
    keyspace,            \* the environment's CASSANDRA_KEYSPACE: the keyspace
                         \* of the tables above, in which the script creates
                         \* its tables and the handlers' session works
    pc,                  \* per caller: the next round trip of its handler
    arg,                 \* per caller: the arguments of the running call
    loc,                 \* per caller: the handler's local variables
    ret,                 \* per caller: the value returned (pc = "done")
    applied,             \* history: increment statements applied per counter name
    failures,            \* history: number of round trips that raised
    calls,               \* history: number of writing calls and script runs started
    readAt,              \* history, per caller: `applied` of its counter when it read it
    before,              \* history, per caller: the summary row of its conversation
                         \* when its create_message call started
    origin,              \* history: the identity rows inserted, with the inserting handler
    prev                 \* history: the call returned last, when it was a
                         \* create_or_get_conversation call that returned a value

tables == <<indexes, messages, user_conversations, conversations>>
env == <<ring, dropped, keyspace>>
hist == <<applied, failures, calls, readAt, before, origin, prev>>

vars == <<indexes, messages, user_conversations, conversations, ring, dropped,
          keyspace, pc, arg, loc, ret, applied, failures, calls, readAt, before, origin, prev>>

CounterNames == {"message_id", "conversation_id"}

(* --------------------------- schema helpers ---------------------------- *)
Min(a, b) == IF a < b THEN a ELSE b
Max(a, b) == IF a > b THEN a ELSE b

\* The token order of partition keys is fixed by the partitioner and unknown
\* to the access layer: a key takes its place among the others when its
\* partition is first written, and keeps it.
InRing(cid) == \E i \in 1..Len(ring) : ring[i] = cid

Placements(cid) ==
    IF InRing(cid) THEN {ring}
    ELSE {SubSeq(ring, 1, i) \o <<cid>> \o SubSeq(ring, i + 1, Len(ring)) : i \in 0..Len(ring)}

\* position of a partition key in the partitioner order
RingPos(cid) == CHOOSE i \in 1..Len(ring) : ring[i] = cid

\* messages: PRIMARY KEY (conversation_id, timestamp, message_id)
\*           WITH CLUSTERING ORDER BY (timestamp DESC, message_id ASC)
MessageKey(r) == <<r.conversation_id, r.timestamp, r.message_id>>

MessageBefore(a, b) ==
    \/ a.timestamp > b.timestamp
    \/ a.timestamp = b.timestamp /\ a.message_id < b.message_id

\* the rows of one partition in clustering order
RECURSIVE ClusteringOrder(_)
ClusteringOrder(S) ==
    IF S = {} THEN <<>>
    ELSE LET first == CHOOSE r \in S : \A o \in S \ {r} : MessageBefore(r, o)
         IN  <<first>> \o ClusteringOrder(S \ {first})

\* user_conversations: PRIMARY KEY (conversation_id)
SummaryBefore(a, b) == RingPos(a.conversation_id) < RingPos(b.conversation_id)

RECURSIVE SummaryScanOrder(_)
SummaryScanOrder(S) ==
    IF S = {} THEN <<>>
    ELSE LET first == CHOOSE r \in S : \A o \in S \ {r} : SummaryBefore(r, o)
         IN  <<first>> \o SummaryScanOrder(S \ {first})

\* conversations: PRIMARY KEY (conversation_id, sender_id)
IdentityKey(r) == <<r.conversation_id, r.sender_id>>

IdentityBefore(a, b) ==
    \/ RingPos(a.conversation_id) < RingPos(b.conversation_id)
    \/ a.conversation_id = b.conversation_id /\ a.sender_id < b.sender_id

RECURSIVE IdentityScanOrder(_)
IdentityScanOrder(S) ==
    IF S = {} THEN <<>>
    ELSE LET first == CHOOSE r \in S : \A o \in S \ {r} : IdentityBefore(r, o)
         IN  <<first>> \o IdentityScanOrder(S \ {first})

\* the value of CQL type TIMESTAMP that a datetime becomes when it is bound to
\* a statement: the datetime cut to whole milliseconds
StoredTimestamp(t) == (t \div TicksPerMilli) * TicksPerMilli

\* Python's seq[start:stop] (0-based, negative indexes count from the end)
PyIndex(i, n) == IF i < 0 THEN Max(i + n, 0) ELSE Min(i, n)

PySlice(seq, start, stop) ==
    LET n  == Len(seq)
        lo == PyIndex(start, n)
        hi == PyIndex(stop, n)
    IN  IF lo < hi THEN SubSeq(seq, lo + 1, hi) ELSE <<>>

(* ----------------------------- statements ------------------------------ *)
\* SELECT index_value FROM indexes WHERE index_name = name
SelectIndex(name) ==
    IF name \in DOMAIN indexes THEN <<[index_value |-> indexes[name]]>> ELSE <<>>

\* variant: an absent counter row gives id 0
NextIdFromZero(output) == IF output # <<>> THEN output[1].index_value + 1 ELSE 0

\* output[0]["index_value"] + 1 if output else 1
NextId(output) == IF output # <<>> THEN output[1].index_value + 1 ELSE 1

\* variant: the UPDATE changes an existing counter row only
UpdateIndexExistingOnly(name) ==
    IF name \in DOMAIN indexes THEN [indexes EXCEPT ![name] = @ + 1] ELSE indexes

\* UPDATE indexes SET index_value = index_value + 1 WHERE index_name = name
UpdateIndex(name) ==
    IF name \in DOMAIN indexes
    THEN [indexes EXCEPT ![name] = @ + 1]
    ELSE [n \in (DOMAIN indexes) \cup {name} |-> IF n = name THEN 1 ELSE indexes[n]]

\* INSERT INTO messages (...) VALUES (...): an upsert on the primary key
InsertMessage(msg_id, conversation_id, sender_id, receiver_id, content, created_at) ==
    LET row == [message_id |-> msg_id, conversation_id |-> conversation_id,
                sender_id |-> sender_id, receiver_id |-> receiver_id,
                content |-> content, timestamp |-> StoredTimestamp(created_at)]
    IN  {r \in messages : MessageKey(r) # MessageKey(row)} \cup {row}

\* select conversation_id from user_conversations where conversation_id = c
SelectSummaryId(conversation_id) ==
    SummaryScanOrder({[conversation_id |-> r.conversation_id] :
                        r \in {x \in user_conversations : x.conversation_id = conversation_id}})

\* INSERT INTO user_conversations (conversation_id, sender_id, receiver_id,
\*                                 last_timestamp, last_message): an upsert
InsertSummary(conversation_id, sender_id, receiver_id, created_at, content) ==
    {r \in user_conversations : r.conversation_id # conversation_id}
    \cup {[conversation_id |-> conversation_id, sender_id |-> sender_id,
           receiver_id |-> receiver_id, last_timestamp |-> StoredTimestamp(created_at),
           last_message |-> content]}

\* UPDATE user_conversations SET last_timestamp, last_message, sender_id,
\* receiver_id WHERE conversation_id = c: writes the four columns of the row
\* with that key, creating the row when there is none
UpdateSummary(created_at, content, sender_id, receiver_id, conversation_id) ==
    {r \in user_conversations : r.conversation_id # conversation_id}
    \cup {[conversation_id |-> conversation_id, sender_id |-> sender_id,
           receiver_id |-> receiver_id, last_timestamp |-> StoredTimestamp(created_at),
           last_message |-> content]}

\* SELECT conversation_id FROM conversations
\* WHERE sender_id = a AND receiver_id = b ALLOW FILTERING
SelectIdentity(a, b) ==
    LET hit == IdentityScanOrder({r \in conversations : r.sender_id = a /\ r.receiver_id = b})
    IN  [i \in 1..Len(hit) |-> [conversation_id |-> hit[i].conversation_id]]

\* INSERT INTO conversations (conversation_id, sender_id, receiver_id,
\*                            last_timestamp): an upsert on the primary key
InsertIdentity(conversation_id, sender_id, receiver_id, created_at) ==
    LET row == [conversation_id |-> conversation_id, sender_id |-> sender_id,
                receiver_id |-> receiver_id, last_timestamp |-> StoredTimestamp(created_at)]
    IN  {r \in conversations : IdentityKey(r) # IdentityKey(row)} \cup {row}

\* SELECT ... FROM user_conversations WHERE conversation_id = c
SelectSummary(conversation_id) ==
    SummaryScanOrder({r \in user_conversations : r.conversation_id = conversation_id})

\* SELECT ... FROM user_conversations WHERE sender_id = u ALLOW FILTERING
SelectSummaryBySender(user_id) ==
    SummaryScanOrder({r \in user_conversations : r.sender_id = user_id})

\* variant: query_two filters on sender_id, as query_one does
SelectSummaryByReceiverAsSender(user_id) ==
    SummaryScanOrder({r \in user_conversations : r.sender_id = user_id})

\* SELECT ... FROM user_conversations WHERE receiver_id = u ALLOW FILTERING
SelectSummaryByReceiver(user_id) ==
    SummaryScanOrder({r \in user_conversations : r.receiver_id = user_id})

\* SELECT ... FROM messages WHERE conversation_id = c ORDER BY timestamp DESC
SelectMessages(conversation_id) ==
    ClusteringOrder({r \in messages : r.conversation_id = conversation_id})

\* SELECT COUNT of the rows, as count, FROM messages WHERE conversation_id = c
CountMessages(conversation_id) ==
    <<[count |-> Cardinality({r \in messages : r.conversation_id = conversation_id})]>>

\* SELECT COUNT of the rows, as count, FROM messages WHERE conversation_id = c
\* AND timestamp < t
CountMessagesBefore(conversation_id, before_timestamp) ==
    <<[count |-> Cardinality({r \in messages :
                                /\ r.conversation_id = conversation_id
                                /\ r.timestamp < StoredTimestamp(before_timestamp)})]>>

\* variant: the filter is timestamp <= t
SelectMessagesUpTo(conversation_id, before_timestamp) ==
    ClusteringOrder({r \in messages : r.conversation_id = conversation_id
                                      /\ r.timestamp <= StoredTimestamp(before_timestamp)})

\* SELECT ... FROM messages WHERE conversation_id = c AND timestamp < t
\* ORDER BY timestamp DESC
SelectMessagesBefore(conversation_id, before_timestamp) ==
    ClusteringOrder({r \in messages : r.conversation_id = conversation_id
                                      /\ r.timestamp < StoredTimestamp(before_timestamp)})

(* ---------------------------- read handlers ---------------------------- *)
\* the dict built for each row in get_conversation_messages and
\* get_messages_before_timestamp
MessageDict(row, conversation_id) ==
    [id |-> row.message_id, sender_id |-> row.sender_id,
     receiver_id |-> row.receiver_id, content |-> row.content,
     created_at |-> row.timestamp, conversation_id |-> conversation_id]

\* variant: the offset is page * limit
get_conversation_messages_from_next_page(conversation_id, page, limit) ==
    LET output    == SelectMessages(conversation_id)
        msgs      == [i \in 1..Len(output) |-> MessageDict(output[i], conversation_id)]
        total     == Len(msgs)
        offset    == page * limit
        paginated == PySlice(msgs, offset, offset + limit)
    IN  <<paginated, total>>

\* MessageModel.get_conversation_messages: <<messages, total>>
get_conversation_messages(conversation_id, page, limit) ==
    LET output    == SelectMessages(conversation_id)
        msgs      == [i \in 1..Len(output) |-> MessageDict(output[i], conversation_id)]
        total     == Len(msgs)
        offset    == (page - 1) * limit
        paginated == PySlice(msgs, offset, offset + limit)
    IN  <<paginated, total>>

\* variant: the query leaves the timestamp filter out
get_messages_before_timestamp_unfiltered(conversation_id, before_timestamp, page, limit) ==
    LET output    == SelectMessages(conversation_id)
        msgs      == [i \in 1..Len(output) |-> MessageDict(output[i], conversation_id)]
        total     == Len(msgs)
        offset    == (page - 1) * limit
        paginated == PySlice(msgs, offset, offset + limit)
    IN  <<paginated, total>>

\* MessageModel.get_messages_before_timestamp: <<messages, total>>
get_messages_before_timestamp(conversation_id, before_timestamp, page, limit) ==
    LET output    == SelectMessagesBefore(conversation_id, before_timestamp)
        msgs      == [i \in 1..Len(output) |-> MessageDict(output[i], conversation_id)]
        total     == Len(msgs)
        offset    == (page - 1) * limit
        paginated == PySlice(msgs, offset, offset + limit)
    IN  <<paginated, total>>

\* the dict built for each row in get_user_conversations
ConversationDict(row) ==
    [id |-> row.conversation_id, user1_id |-> row.sender_id,
     user2_id |-> row.receiver_id, last_message_at |-> row.last_timestamp,
     last_message_content |-> row.last_message]

\* variant: total is taken after the slice
PaginateConversationsTotalOfPage(output_one, output_two, page, limit) ==
    LET output_list_one == output_one \o output_two
        offset          == (page - 1) * limit
        paginated       == PySlice(output_list_one, offset, offset + limit)
        total           == Len(paginated)
    IN  <<[i \in 1..Len(paginated) |-> ConversationDict(paginated[i])], total>>

\* ConversationModel.get_user_conversations after its two scans: the sorted()
\* copy is dropped, the concatenation itself is sliced
PaginateConversations(output_one, output_two, page, limit) ==
    LET output_list_one == output_one \o output_two
        total           == Len(output_list_one)
        offset          == (page - 1) * limit
        paginated       == PySlice(output_list_one, offset, offset + limit)
    IN  <<[i \in 1..Len(paginated) |-> ConversationDict(paginated[i])], total>>

\* ConversationModel.get_user_conversations on an unchanging store
get_user_conversations(user_id, page, limit) ==
    PaginateConversations(SelectSummaryBySender(user_id),
                          SelectSummaryByReceiver(user_id), page, limit)

\* ConversationModel.get_conversation: the summary dict, or None
get_conversation(conversation_id) ==
    LET output == SelectSummary(conversation_id)
    IN  IF output = <<>> THEN None
        ELSE [conversation_id |-> output[1].conversation_id,
              sender_id |-> output[1].sender_id,
              receiver_id |-> output[1].receiver_id,
              last_message_at |-> output[1].last_timestamp,
              last_message_content |-> output[1].last_message]

(* ------------------------------ callers -------------------------------- *)
NoArg == [op |-> "none"]
NoLoc == [id |-> 0, created_at |-> 0, output_one |-> <<>>, output_two |-> <<>>, rows |-> <<>>,
          total |-> 0,
          \* the locals of generate_test_data
          conversation_id |-> 0, user1_id |-> 0, user2_id |-> 0, last_timestamp |-> 0,
          num_messages |-> 0, message_id |-> 0]
NoPrev == [op |-> "none"]

\* The table a statement names, by the position of the statement in its
\* handler or script (the first statement of a handler by a name of its own).
IndexStatements ==
    {"cm_select_index", "cm_update_index", "cc_select_index", "cc_update_index",
     "cog_select_index", "cog_update_index"}
MessageStatements ==
    {"cm_insert_message", "gcm_count", "gcm_select", "gmbt_count", "gmbt_select",
     "gtd_insert_message"}
SummaryStatements ==
    {"cm_check_conversation", "cm_write_summary", "cog_get_conversation",
     "get_conversation", "guc_scan_one", "guc_scan_two", "gtd_insert_summary"}
IdentityStatements ==
    {"cc_insert_identity", "cog_probe_one", "cog_probe_two", "cog_insert_identity"}
Statements ==
    IndexStatements \cup MessageStatements \cup SummaryStatements \cup IdentityStatements

TableOfStatement(l) ==
    CASE l \in IndexStatements -> "indexes"
      [] l \in MessageStatements -> "messages"
      [] l \in SummaryStatements -> "user_conversations"
      [] l \in IdentityStatements -> "conversations"

\* the handlers of the service and the first statement of each
Handlers ==
    {"create_message", "create_conversation", "create_or_get_conversation",
     "get_conversation", "get_conversation_messages", "get_messages_before_timestamp",
     "get_user_conversations"}

FirstStatement(op) ==
    CASE op = "create_message" -> "cm_select_index"
      [] op = "create_conversation" -> "cc_select_index"
      [] op = "create_or_get_conversation" -> "cog_probe_one"
      [] op = "get_conversation" -> "get_conversation"
      [] op = "get_conversation_messages" -> "gcm_count"
      [] op = "get_messages_before_timestamp" -> "gmbt_count"
      [] op = "get_user_conversations" -> "guc_scan_one"
      [] op = "create_tables" -> "ct_create_keyspace"

\* the table of statement l exists: the statement can be executed
Configured(l) == TableOfStatement(l) \notin dropped

\* datetime.now(): the naive local wall clock; a reading may lie before the
\* previous one (the clock is corrected, the zone changes)
ClockReadings == 1..MaxTime

Init ==
    /\ indexes = << >>
    /\ messages = {}
    /\ user_conversations = {}
    /\ conversations = {}
    /\ ring = <<>>
    /\ dropped = {}
    /\ keyspace \in Keyspaces
    /\ pc = [p \in Procs |-> "idle"]
    /\ arg = [p \in Procs |-> NoArg]
    /\ loc = [p \in Procs |-> NoLoc]
    /\ ret = [p \in Procs |-> None]
    /\ applied = [n \in CounterNames |-> 0]
    /\ failures = 0
    /\ calls = 0
    /\ readAt = [p \in Procs |-> 0]
    /\ before = [p \in Procs |-> <<>>]
    /\ origin = {}
    /\ prev = NoPrev

(* ----------------------- a call that fails at once -------------------- *)
\* the calls a caller may start, as the records kept in arg
MessageCalls ==
    {[op |-> "create_message", conversation_id |-> a[1], sender_id |-> a[2],
      receiver_id |-> a[3], content |-> a[4]] : a \in MessageArgs}
CreateCalls ==
    {[op |-> "create_conversation", sender_id |-> sr[1], receiver_id |-> sr[2]] :
        sr \in CreateArgs}
PairCalls ==
    {[op |-> "create_or_get_conversation", user1_id |-> u[1], user2_id |-> u[2]] :
        u \in UserPairs}
ReadCalls ==
    {[op |-> "get_conversation", conversation_id |-> c] : c \in ConvArgs}
    \cup {[op |-> "get_conversation_messages", conversation_id |-> c, page |-> page,
           limit |-> limit] : c \in ConvArgs, page \in Pages, limit \in Limits}
    \cup {[op |-> "get_messages_before_timestamp", conversation_id |-> c,
           before_timestamp |-> t, page |-> page, limit |-> limit] :
              c \in ConvArgs, t \in BeforeArgs, page \in Pages, limit \in Limits}
    \cup {[op |-> "get_user_conversations", user_id |-> u, page |-> page,
           limit |-> limit] : u \in Users, page \in Pages, limit \in Limits}
SetupCalls == {[op |-> "create_tables"]}

\* the calls counted in `calls`: the writing handlers and the script runs
Counted(a) ==
    a.op \in {"create_message", "create_conversation", "create_or_get_conversation",
              "create_tables"}

\* The first statement of a call of callset raises (the store times out, the
\* connection is lost): the exception leaves the handler or the script, no
\* table has changed.
FailStart(p, callset) ==
    /\ pc[p] = "idle"
    /\ failures < MaxFailures
    /\ failures' = failures + 1
    /\ \E a \in callset :
          /\ Counted(a) => calls < MaxCalls
          /\ calls' = IF Counted(a) THEN calls + 1 ELSE calls
          /\ arg' = [arg EXCEPT ![p] = a]
          /\ ret' = [ret EXCEPT ![p] = [error |-> FirstStatement(a.op)]]
          /\ before' = [before EXCEPT ![p] =
                           IF a.op = "create_message"
                           THEN SelectSummary(a.conversation_id) ELSE before[p]]
    /\ pc' = [pc EXCEPT ![p] = "failed"]
    /\ UNCHANGED <<tables, env, loc, applied, readAt, origin, prev>>

\* The statement the caller is about to execute raises (as in Fail below);
\* the caller's side of that step.
Raises(p) ==
    /\ pc[p] \notin {"idle", "done", "failed"}
    /\ failures < MaxFailures
    /\ failures' = failures + 1
    /\ ret' = [ret EXCEPT ![p] = [error |-> pc[p]]]
    /\ pc' = [pc EXCEPT ![p] = "failed"]
    /\ UNCHANGED <<arg, loc, calls, readAt, before, prev>>

(* ------------------- MessageModel.create_message ----------------------- *)
\* the callers inside a create_message call on conversation c
MessageCallers(c) ==
    {q \in Procs :
        /\ pc[q] \in {"cm_update_index", "cm_insert_message",
                      "cm_check_conversation", "cm_write_summary"}
        /\ arg[q].conversation_id = c}

\* SELECT index_value ... 'message_id'; msg_id = output[0]["index_value"] + 1
CM_SelectIndex(p) ==
    /\ pc[p] = "idle"
    /\ Configured("cm_select_index")
    /\ calls < MaxCalls
    /\ calls' = calls + 1
    /\ \E a \in MessageArgs :
          /\ arg' = [arg EXCEPT ![p] = [op |-> "create_message", conversation_id |-> a[1],
                                        sender_id |-> a[2], receiver_id |-> a[3],
                                        content |-> a[4]]]
          /\ before' = [before EXCEPT ![p] = SelectSummary(a[1])]
    /\ loc' = [loc EXCEPT ![p].id = NextId(SelectIndex("message_id"))]
    /\ readAt' = [readAt EXCEPT ![p] = applied["message_id"]]
    /\ pc' = [pc EXCEPT ![p] = "cm_update_index"]
    /\ UNCHANGED <<tables, env, ret, applied, failures, origin, prev>>

\* variant: the id is taken from the counter after the increment
CM_UpdateIndexThenRead(p) ==
    /\ pc[p] = "cm_update_index"
    /\ Configured("cm_update_index")
    /\ indexes' = UpdateIndex("message_id")
    /\ applied' = [applied EXCEPT !["message_id"] = @ + 1]
    /\ \E t \in ClockReadings :
          loc' = [loc EXCEPT ![p].created_at = t,
                             ![p].id = UpdateIndex("message_id")["message_id"]]
    /\ pc' = [pc EXCEPT ![p] = "cm_insert_message"]
    /\ UNCHANGED <<messages, user_conversations, conversations, env, arg, ret,
                   failures, calls, readAt, before, origin, prev>>

\* UPDATE indexes ... 'message_id'; created_at = datetime.now()
CM_UpdateIndex(p) ==
    /\ pc[p] = "cm_update_index"
    /\ Configured("cm_update_index")
    /\ indexes' = UpdateIndex("message_id")
    /\ applied' = [applied EXCEPT !["message_id"] = @ + 1]
    /\ \E t \in ClockReadings :
          loc' = [loc EXCEPT ![p].created_at = t]
    /\ pc' = [pc EXCEPT ![p] = "cm_insert_message"]
    /\ UNCHANGED <<messages, user_conversations, conversations, env, arg, ret,
                   failures, calls, readAt, before, origin, prev>>

\* INSERT INTO messages
CM_InsertMessage(p) ==
    /\ pc[p] = "cm_insert_message"
    /\ Configured("cm_insert_message")
    /\ messages' = InsertMessage(loc[p].id, arg[p].conversation_id, arg[p].sender_id,
                                 arg[p].receiver_id, arg[p].content, loc[p].created_at)
    /\ pc' = [pc EXCEPT ![p] = "cm_check_conversation"]
    /\ UNCHANGED <<indexes, user_conversations, conversations, env, arg, loc, ret, hist>>

\* select conversation_id from user_conversations where conversation_id = %s
CM_CheckConversation(p) ==
    /\ pc[p] = "cm_check_conversation"
    /\ Configured("cm_check_conversation")
    /\ loc' = [loc EXCEPT ![p].rows = SelectSummaryId(arg[p].conversation_id)]
    /\ pc' = [pc EXCEPT ![p] = "cm_write_summary"]
    /\ UNCHANGED <<tables, env, arg, ret, hist>>

\* variant: a summary row that exists is left as it is
WriteSummaryOnlyWhenAbsent(rows, conversation_id, sender_id, receiver_id, created_at, content) ==
    IF rows = <<>>
    THEN InsertSummary(conversation_id, sender_id, receiver_id, created_at, content)
    ELSE user_conversations

\* the summary statement create_message issues for the rows it read:
\* if not rows: INSERT INTO user_conversations  else: UPDATE user_conversations
WriteSummary(rows, conversation_id, sender_id, receiver_id, created_at, content) ==
    IF rows = <<>>
    THEN InsertSummary(conversation_id, sender_id, receiver_id, created_at, content)
    ELSE UpdateSummary(created_at, content, sender_id, receiver_id, conversation_id)

\* the summary statement, then return the message dict
CM_WriteSummary(p) ==
    /\ pc[p] = "cm_write_summary"
    /\ Configured("cm_write_summary")
    /\ user_conversations' = WriteSummary(loc[p].rows, arg[p].conversation_id,
                                          arg[p].sender_id, arg[p].receiver_id,
                                          loc[p].created_at, arg[p].content)
    /\ ring' \in Placements(arg[p].conversation_id)
    /\ UNCHANGED <<dropped, keyspace>>
    /\ ret' = [ret EXCEPT ![p] = [message_id |-> loc[p].id, sender_id |-> arg[p].sender_id,
                                  receiver_id |-> arg[p].receiver_id,
                                  content |-> arg[p].content,
                                  timestamp |-> loc[p].created_at,
                                  conversation_id |-> arg[p].conversation_id]]
    /\ pc' = [pc EXCEPT ![p] = "done"]
    /\ UNCHANGED <<indexes, messages, conversations, arg, loc, hist>>

\* A writing statement of create_message is applied by the store and raises
\* all the same (the driver times out waiting for the answer): the row stays,
\* the exception leaves the handler.
CM_FailApplied(p) ==
    /\ Raises(p)
    /\ \/ /\ pc[p] = "cm_update_index"
          /\ Configured("cm_update_index")
          /\ indexes' = UpdateIndex("message_id")
          /\ applied' = [applied EXCEPT !["message_id"] = @ + 1]
          /\ UNCHANGED <<messages, user_conversations, conversations, env, origin>>
       \/ /\ pc[p] = "cm_insert_message"
          /\ Configured("cm_insert_message")
          /\ messages' = InsertMessage(loc[p].id, arg[p].conversation_id,
                                       arg[p].sender_id, arg[p].receiver_id,
                                       arg[p].content, loc[p].created_at)
          /\ UNCHANGED <<indexes, user_conversations, conversations, env,
                         applied, origin>>
       \/ /\ pc[p] = "cm_write_summary"
          /\ Configured("cm_write_summary")
          /\ user_conversations' = WriteSummary(loc[p].rows, arg[p].conversation_id,
                                                arg[p].sender_id, arg[p].receiver_id,
                                                loc[p].created_at, arg[p].content)
          /\ ring' \in Placements(arg[p].conversation_id)
          /\ UNCHANGED <<indexes, messages, conversations, dropped, keyspace, applied, origin>>

(* ---------------- ConversationModel.create_conversation ---------------- *)
CC_SelectIndex(p) ==
    /\ pc[p] = "idle"
    /\ Configured("cc_select_index")
    /\ calls < MaxCalls
    /\ calls' = calls + 1
    /\ \E sr \in CreateArgs :
          arg' = [arg EXCEPT ![p] = [op |-> "create_conversation",
                                     sender_id |-> sr[1], receiver_id |-> sr[2]]]
    /\ loc' = [loc EXCEPT ![p].id = NextId(SelectIndex("conversation_id"))]
    /\ readAt' = [readAt EXCEPT ![p] = applied["conversation_id"]]
    /\ pc' = [pc EXCEPT ![p] = "cc_update_index"]
    /\ UNCHANGED <<tables, env, ret, applied, failures, before, origin, prev>>

CC_UpdateIndex(p) ==
    /\ pc[p] = "cc_update_index"
    /\ Configured("cc_update_index")
    /\ indexes' = UpdateIndex("conversation_id")
    /\ applied' = [applied EXCEPT !["conversation_id"] = @ + 1]
    /\ \E t \in ClockReadings :
          loc' = [loc EXCEPT ![p].created_at = t]
    /\ pc' = [pc EXCEPT ![p] = "cc_insert_identity"]
    /\ UNCHANGED <<messages, user_conversations, conversations, env, arg, ret,
                   failures, calls, readAt, before, origin, prev>>

\* INSERT INTO conversations; return the identity dict
CC_InsertIdentity(p) ==
    /\ pc[p] = "cc_insert_identity"
    /\ Configured("cc_insert_identity")
    /\ conversations' = InsertIdentity(loc[p].id, arg[p].sender_id, arg[p].receiver_id,
                                       loc[p].created_at)
    /\ ring' \in Placements(loc[p].id)
    /\ UNCHANGED <<dropped, keyspace>>
    /\ origin' = origin \cup {[conversation_id |-> loc[p].id, sender_id |-> arg[p].sender_id,
                               receiver_id |-> arg[p].receiver_id, op |-> arg[p].op]}
    /\ ret' = [ret EXCEPT ![p] = [conversation_id |-> loc[p].id,
                                  sender_id |-> arg[p].sender_id,
                                  receiver_id |-> arg[p].receiver_id,
                                  created_at |-> loc[p].created_at]]
    /\ pc' = [pc EXCEPT ![p] = "done"]
    /\ UNCHANGED <<indexes, messages, user_conversations, arg, loc,
                   applied, failures, calls, readAt, before, prev>>

\* a writing statement of create_conversation is applied and raises all the
\* same; the except clause re-raises
CC_FailApplied(p) ==
    /\ Raises(p)
    /\ \/ /\ pc[p] = "cc_update_index"
          /\ Configured("cc_update_index")
          /\ indexes' = UpdateIndex("conversation_id")
          /\ applied' = [applied EXCEPT !["conversation_id"] = @ + 1]
          /\ UNCHANGED <<messages, user_conversations, conversations, env, origin>>
       \/ /\ pc[p] = "cc_insert_identity"
          /\ Configured("cc_insert_identity")
          /\ conversations' = InsertIdentity(loc[p].id, arg[p].sender_id,
                                             arg[p].receiver_id, loc[p].created_at)
          /\ ring' \in Placements(loc[p].id)
          /\ origin' = origin \cup {[conversation_id |-> loc[p].id,
                                     sender_id |-> arg[p].sender_id,
                                     receiver_id |-> arg[p].receiver_id,
                                     op |-> arg[p].op]}
          /\ UNCHANGED <<indexes, messages, user_conversations, dropped, keyspace, applied>>

(* ------------- ConversationModel.create_or_get_conversation ------------ *)
\* query_one: WHERE sender_id = user1_id AND receiver_id = user2_id
COG_ProbeOne(p) ==
    /\ pc[p] = "idle"
    /\ Configured("cog_probe_one")
    /\ calls < MaxCalls
    /\ calls' = calls + 1
    /\ \E u \in UserPairs :
          /\ arg' = [arg EXCEPT ![p] = [op |-> "create_or_get_conversation",
                                        user1_id |-> u[1], user2_id |-> u[2]]]
          /\ loc' = [loc EXCEPT ![p].output_one = SelectIdentity(u[1], u[2])]
    /\ pc' = [pc EXCEPT ![p] = "cog_probe_two"]
    /\ UNCHANGED <<tables, env, ret, applied, failures, readAt, before, origin, prev>>

\* variant: query_two is run with the parameters of query_one
COG_ProbeTwoSameOrder(p) ==
    /\ pc[p] = "cog_probe_two"
    /\ Configured("cog_probe_two")
    /\ LET output_two == SelectIdentity(arg[p].user1_id, arg[p].user2_id)
       IN  /\ loc' = [loc EXCEPT ![p].output_two = output_two]
           /\ pc' = [pc EXCEPT ![p] =
                        IF loc[p].output_one # <<>> \/ output_two # <<>>
                        THEN "cog_get_conversation" ELSE "cog_select_index"]
    /\ UNCHANGED <<tables, env, arg, ret, hist>>

\* query_two: WHERE sender_id = user2_id AND receiver_id = user1_id; then the
\* branch on output_one / output_two
COG_ProbeTwo(p) ==
    /\ pc[p] = "cog_probe_two"
    /\ Configured("cog_probe_two")
    /\ LET output_two == SelectIdentity(arg[p].user2_id, arg[p].user1_id)
       IN  /\ loc' = [loc EXCEPT ![p].output_two = output_two]
           /\ pc' = [pc EXCEPT ![p] =
                        IF loc[p].output_one # <<>> \/ output_two # <<>>
                        THEN "cog_get_conversation" ELSE "cog_select_index"]
    /\ UNCHANGED <<tables, env, arg, ret, hist>>

\* return await ConversationModel.get_conversation(output_xxx[0]["conversation_id"])
COG_GetConversation(p) ==
    /\ pc[p] = "cog_get_conversation"
    /\ Configured("cog_get_conversation")
    /\ ret' = [ret EXCEPT ![p] =
                 IF loc[p].output_one # <<>>
                 THEN get_conversation(loc[p].output_one[1].conversation_id)
                 ELSE get_conversation(loc[p].output_two[1].conversation_id)]
    /\ pc' = [pc EXCEPT ![p] = "done"]
    /\ UNCHANGED <<tables, env, arg, loc, hist>>

COG_SelectIndex(p) ==
    /\ pc[p] = "cog_select_index"
    /\ Configured("cog_select_index")
    /\ loc' = [loc EXCEPT ![p].id = NextId(SelectIndex("conversation_id"))]
    /\ readAt' = [readAt EXCEPT ![p] = applied["conversation_id"]]
    /\ pc' = [pc EXCEPT ![p] = "cog_update_index"]
    /\ UNCHANGED <<tables, env, arg, ret, applied, failures, calls, before, origin, prev>>

\* variant: the UPDATE stores the id the caller computed
COG_UpdateIndexSetsId(p) ==
    /\ pc[p] = "cog_update_index"
    /\ Configured("cog_update_index")
    /\ indexes' = [n \in (DOMAIN indexes) \cup {"conversation_id"} |->
                      IF n = "conversation_id" THEN loc[p].id ELSE indexes[n]]
    /\ applied' = [applied EXCEPT !["conversation_id"] = @ + 1]
    /\ \E t \in ClockReadings :
          loc' = [loc EXCEPT ![p].created_at = t]
    /\ pc' = [pc EXCEPT ![p] = "cog_insert_identity"]
    /\ UNCHANGED <<messages, user_conversations, conversations, env, arg, ret,
                   failures, calls, readAt, before, origin, prev>>

\* UPDATE indexes ... 'conversation_id'; created_at = datetime.now()
COG_UpdateIndex(p) ==
    /\ pc[p] = "cog_update_index"
    /\ Configured("cog_update_index")
    /\ indexes' = UpdateIndex("conversation_id")
    /\ applied' = [applied EXCEPT !["conversation_id"] = @ + 1]
    /\ \E t \in ClockReadings :
          loc' = [loc EXCEPT ![p].created_at = t]
    /\ pc' = [pc EXCEPT ![p] = "cog_insert_identity"]
    /\ UNCHANGED <<messages, user_conversations, conversations, env, arg, ret,
                   failures, calls, readAt, before, origin, prev>>

\* INSERT INTO conversations; return the zero-state summary dict
COG_InsertIdentity(p) ==
    /\ pc[p] = "cog_insert_identity"
    /\ Configured("cog_insert_identity")
    /\ conversations' = InsertIdentity(loc[p].id, arg[p].user1_id, arg[p].user2_id,
                                       loc[p].created_at)
    /\ ring' \in Placements(loc[p].id)
    /\ UNCHANGED <<dropped, keyspace>>
    /\ origin' = origin \cup {[conversation_id |-> loc[p].id, sender_id |-> arg[p].user1_id,
                               receiver_id |-> arg[p].user2_id, op |-> arg[p].op]}
    /\ ret' = [ret EXCEPT ![p] = [conversation_id |-> loc[p].id,
                                  sender_id |-> arg[p].user1_id,
                                  receiver_id |-> arg[p].user2_id,
                                  last_message_at |-> loc[p].created_at,
                                  last_message_content |-> NoneText]]
    /\ pc' = [pc EXCEPT ![p] = "done"]
    /\ UNCHANGED <<indexes, messages, user_conversations, arg, loc,
                   applied, failures, calls, readAt, before, prev>>

\* a writing statement of create_or_get_conversation is applied and raises
\* all the same
COG_FailApplied(p) ==
    /\ Raises(p)
    /\ \/ /\ pc[p] = "cog_update_index"
          /\ Configured("cog_update_index")
          /\ indexes' = UpdateIndex("conversation_id")
          /\ applied' = [applied EXCEPT !["conversation_id"] = @ + 1]
          /\ UNCHANGED <<messages, user_conversations, conversations, env, origin>>
       \/ /\ pc[p] = "cog_insert_identity"
          /\ Configured("cog_insert_identity")
          /\ conversations' = InsertIdentity(loc[p].id, arg[p].user1_id,
                                             arg[p].user2_id, loc[p].created_at)
          /\ ring' \in Placements(loc[p].id)
          /\ origin' = origin \cup {[conversation_id |-> loc[p].id,
                                     sender_id |-> arg[p].user1_id,
                                     receiver_id |-> arg[p].user2_id,
                                     op |-> arg[p].op]}
          /\ UNCHANGED <<indexes, messages, user_conversations, dropped, keyspace, applied>>

(* ------------------------------- reads --------------------------------- *)
GetConversation(p) ==
    /\ pc[p] = "idle"
    /\ Configured("get_conversation")
    /\ \E c \in ConvArgs :
          /\ arg' = [arg EXCEPT ![p] = [op |-> "get_conversation", conversation_id |-> c]]
          /\ ret' = [ret EXCEPT ![p] = get_conversation(c)]
    /\ pc' = [pc EXCEPT ![p] = "done"]
    /\ UNCHANGED <<tables, env, loc, hist>>

\* count_output = execute(count_query); total = count_output[0]["count"]
GCM_Count(p) ==
    /\ pc[p] = "idle"
    /\ Configured("gcm_count")
    /\ \E c \in ConvArgs, page \in Pages, limit \in Limits :
          /\ arg' = [arg EXCEPT ![p] = [op |-> "get_conversation_messages",
                                        conversation_id |-> c, page |-> page,
                                        limit |-> limit]]
          /\ loc' = [loc EXCEPT ![p].total =
                        IF CountMessages(c) # <<>> THEN CountMessages(c)[1].count ELSE 0]
    /\ pc' = [pc EXCEPT ![p] = "gcm_select"]
    /\ UNCHANGED <<tables, env, ret, hist>>

\* output = execute(query); total = len(messages) replaces the count; slice
GCM_Select(p) ==
    /\ pc[p] = "gcm_select"
    /\ Configured("gcm_select")
    /\ LET result == get_conversation_messages(arg[p].conversation_id,
                                               arg[p].page, arg[p].limit)
       IN  /\ ret' = [ret EXCEPT ![p] = result]
           /\ loc' = [loc EXCEPT ![p].total = result[2]]
    /\ pc' = [pc EXCEPT ![p] = "done"]
    /\ UNCHANGED <<tables, env, arg, hist>>

\* count_output = execute(count_query, (conversation_id, before_timestamp))
GMBT_Count(p) ==
    /\ pc[p] = "idle"
    /\ Configured("gmbt_count")
    /\ \E c \in ConvArgs, t \in BeforeArgs, page \in Pages, limit \in Limits :
          /\ arg' = [arg EXCEPT ![p] = [op |-> "get_messages_before_timestamp",
                                        conversation_id |-> c, before_timestamp |-> t,
                                        page |-> page, limit |-> limit]]
          /\ loc' = [loc EXCEPT ![p].total =
                        IF CountMessagesBefore(c, t) # <<>>
                        THEN CountMessagesBefore(c, t)[1].count ELSE 0]
    /\ pc' = [pc EXCEPT ![p] = "gmbt_select"]
    /\ UNCHANGED <<tables, env, ret, hist>>

\* output = execute(query, ...); total = len(messages) replaces the count; slice
GMBT_Select(p) ==
    /\ pc[p] = "gmbt_select"
    /\ Configured("gmbt_select")
    /\ LET result == get_messages_before_timestamp(arg[p].conversation_id,
                                                   arg[p].before_timestamp,
                                                   arg[p].page, arg[p].limit)
       IN  /\ ret' = [ret EXCEPT ![p] = result]
           /\ loc' = [loc EXCEPT ![p].total = result[2]]
    /\ pc' = [pc EXCEPT ![p] = "done"]
    /\ UNCHANGED <<tables, env, arg, hist>>

\* output_one = execute(query_one)
GUC_ScanOne(p) ==
    /\ pc[p] = "idle"
    /\ Configured("guc_scan_one")
    /\ \E u \in Users, page \in Pages, limit \in Limits :
          /\ arg' = [arg EXCEPT ![p] = [op |-> "get_user_conversations", user_id |-> u,
                                        page |-> page, limit |-> limit]]
          /\ loc' = [loc EXCEPT ![p].output_one = SelectSummaryBySender(u)]
    /\ pc' = [pc EXCEPT ![p] = "guc_scan_two"]
    /\ UNCHANGED <<tables, env, ret, hist>>

\* output_two = execute(query_two); extend, slice, build the dicts
GUC_ScanTwo(p) ==
    /\ pc[p] = "guc_scan_two"
    /\ Configured("guc_scan_two")
    /\ ret' = [ret EXCEPT ![p] =
                 PaginateConversations(loc[p].output_one,
                                       SelectSummaryByReceiver(arg[p].user_id),
                                       arg[p].page, arg[p].limit)]
    /\ pc' = [pc EXCEPT ![p] = "done"]
    /\ UNCHANGED <<tables, env, arg, loc, hist>>

(* ------------- scripts/generate_test_data.py: generate_test_data ------- *)
\* The script is run by an operator beside the callers of the service: it is
\* one more activity of a process p, its session.execute calls are round trips.
\* connect_to_cassandra(); conversation_id = 1
GTD_Start(p) ==
    /\ pc[p] = "idle"
    /\ calls < MaxCalls
    /\ calls' = calls + 1
    /\ arg' = [arg EXCEPT ![p] = [op |-> "generate_test_data"]]
    /\ loc' = [loc EXCEPT ![p].conversation_id = 1]
    /\ pc' = [pc EXCEPT ![p] = "gtd_insert_summary"]
    /\ UNCHANGED <<tables, env, ret, applied, failures, readAt, before, origin, prev>>

\* user1_id, user2_id distinct; last_timestamp = datetime.now() - timedelta(days);
\* INSERT INTO user_conversations; num_messages = random.randint(1, MAX...)
GTD_InsertSummary(p) ==
    /\ pc[p] = "gtd_insert_summary"
    /\ Configured("gtd_insert_summary")
    /\ loc[p].conversation_id <= MaxScriptConversations
    /\ \E user1_id \in TestUsers, t \in ClockReadings, days \in TestDays,
          num_messages \in TestCounts :
          \E user2_id \in TestUsers \ {user1_id} :
             LET last_timestamp == t - days * DayTicks
             IN  /\ user_conversations' =
                       InsertSummary(loc[p].conversation_id, user1_id, user2_id,
                                     last_timestamp,
                                     TestLastMessage(loc[p].conversation_id))
                 /\ loc' = [loc EXCEPT ![p].user1_id = user1_id,
                                       ![p].user2_id = user2_id,
                                       ![p].last_timestamp = last_timestamp,
                                       ![p].num_messages = num_messages,
                                       ![p].message_id = 1]
    /\ ring' \in Placements(loc[p].conversation_id)
    /\ UNCHANGED <<dropped, keyspace>>
    /\ pc' = [pc EXCEPT ![p] = "gtd_insert_message"]
    /\ UNCHANGED <<indexes, messages, conversations, arg, ret, hist>>

\* timestamp = last_timestamp - timedelta(minutes); sender one of the two
\* users, receiver the other; INSERT INTO messages; then the next message_id,
\* the next conversation_id, or the end of the run
GTD_InsertMessage(p) ==
    /\ pc[p] = "gtd_insert_message"
    /\ Configured("gtd_insert_message")
    /\ \E minutes \in TestMinutes, sender_id \in {loc[p].user1_id, loc[p].user2_id} :
          LET timestamp   == loc[p].last_timestamp - minutes * MinuteTicks
              receiver_id == IF sender_id = loc[p].user1_id
                             THEN loc[p].user2_id ELSE loc[p].user1_id
          IN  messages' = InsertMessage(loc[p].message_id, loc[p].conversation_id,
                                        sender_id, receiver_id,
                                        TestContent(loc[p].message_id, loc[p].conversation_id),
                                        timestamp)
    /\ IF loc[p].message_id < loc[p].num_messages
       THEN /\ loc' = [loc EXCEPT ![p].message_id = @ + 1]
            /\ pc' = pc
       ELSE IF loc[p].conversation_id < NUM_CONVERSATIONS
       THEN /\ loc' = [loc EXCEPT ![p] = [NoLoc EXCEPT !.conversation_id =
                                                  loc[p].conversation_id + 1]]
            /\ pc' = [pc EXCEPT ![p] = "gtd_insert_summary"]
       ELSE /\ loc' = [loc EXCEPT ![p] = NoLoc]
            /\ pc' = [pc EXCEPT ![p] = "done"]
    /\ UNCHANGED <<indexes, user_conversations, conversations, env, arg, ret, hist>>

\* an INSERT of the script is applied and raises all the same; main logs the
\* exception and the run ends
GTD_FailApplied(p) ==
    /\ Raises(p)
    /\ \/ /\ pc[p] = "gtd_insert_summary"
          /\ Configured("gtd_insert_summary")
          /\ loc[p].conversation_id <= MaxScriptConversations
          /\ \E user1_id \in TestUsers, t \in ClockReadings, days \in TestDays :
                \E user2_id \in TestUsers \ {user1_id} :
                   user_conversations' =
                       InsertSummary(loc[p].conversation_id, user1_id, user2_id,
                                     t - days * DayTicks,
                                     TestLastMessage(loc[p].conversation_id))
          /\ ring' \in Placements(loc[p].conversation_id)
          /\ UNCHANGED <<indexes, messages, conversations, dropped, keyspace, applied, origin>>
       \/ /\ pc[p] = "gtd_insert_message"
          /\ Configured("gtd_insert_message")
          /\ \E minutes \in TestMinutes,
                sender_id \in {loc[p].user1_id, loc[p].user2_id} :
                LET receiver_id == IF sender_id = loc[p].user1_id
                                   THEN loc[p].user2_id ELSE loc[p].user1_id
                IN  messages' =
                        InsertMessage(loc[p].message_id, loc[p].conversation_id,
                                      sender_id, receiver_id,
                                      TestContent(loc[p].message_id,
                                                  loc[p].conversation_id),
                                      loc[p].last_timestamp - minutes * MinuteTicks)
          /\ UNCHANGED <<indexes, user_conversations, conversations, env,
                         applied, origin>>

(* ------------------- scripts/setup_db.py: create_tables ---------------- *)
\* A later run of the setup script: each table is dropped and then created
\* anew, one statement after the other.  The DROP statements name the
\* keyspace messenger: when CASSANDRA_KEYSPACE is another keyspace, they leave
\* its tables alone and the CREATE statements find them.  Between DROP and
\* CREATE the table does not exist.  The partitioner order of the keys stays.
\* DROP TABLE IF EXISTS messenger.<t>
CT_Drop(t) ==
    IF keyspace = DroppedKeyspace
    THEN /\ indexes' = IF t = "indexes" THEN << >> ELSE indexes
         /\ messages' = IF t = "messages" THEN {} ELSE messages
         /\ user_conversations' = IF t = "user_conversations" THEN {}
                                  ELSE user_conversations
         /\ conversations' = IF t = "conversations" THEN {} ELSE conversations
         /\ dropped' = dropped \cup {t}
    ELSE UNCHANGED <<tables, dropped>>

\* CREATE TABLE IF NOT EXISTS <t>
CT_Create(t) ==
    /\ dropped' = dropped \ {t}
    /\ UNCHANGED tables

\* main: connect; create_keyspace: CREATE KEYSPACE IF NOT EXISTS
\* CASSANDRA_KEYSPACE (it exists); session.set_keyspace
CT_CreateKeyspace(p) ==
    /\ pc[p] = "idle"
    /\ calls < MaxCalls
    /\ calls' = calls + 1
    /\ \E a \in SetupCalls : arg' = [arg EXCEPT ![p] = a]
    /\ pc' = [pc EXCEPT ![p] = "ct_drop_indexes"]
    /\ UNCHANGED <<tables, env, loc, ret, applied, failures, readAt, before,
                   origin, prev>>

\* DROP TABLE IF EXISTS messenger.indexes
CT_DropIndexes(p) ==
    /\ pc[p] = "ct_drop_indexes"
    /\ CT_Drop("indexes")
    /\ pc' = [pc EXCEPT ![p] = "ct_create_indexes"]
    /\ UNCHANGED <<ring, keyspace, arg, loc, ret, hist>>

\* CREATE TABLE IF NOT EXISTS indexes
CT_CreateIndexes(p) ==
    /\ pc[p] = "ct_create_indexes"
    /\ CT_Create("indexes")
    /\ pc' = [pc EXCEPT ![p] = "ct_drop_messages"]
    /\ UNCHANGED <<ring, keyspace, arg, loc, ret, hist>>

\* DROP TABLE IF EXISTS messenger.messages
CT_DropMessages(p) ==
    /\ pc[p] = "ct_drop_messages"
    /\ CT_Drop("messages")
    /\ pc' = [pc EXCEPT ![p] = "ct_create_messages"]
    /\ UNCHANGED <<ring, keyspace, arg, loc, ret, hist>>

\* CREATE TABLE IF NOT EXISTS messages
CT_CreateMessages(p) ==
    /\ pc[p] = "ct_create_messages"
    /\ CT_Create("messages")
    /\ pc' = [pc EXCEPT ![p] = "ct_drop_user_conversations"]
    /\ UNCHANGED <<ring, keyspace, arg, loc, ret, hist>>

\* DROP TABLE IF EXISTS messenger.user_conversations
CT_DropUserConversations(p) ==
    /\ pc[p] = "ct_drop_user_conversations"
    /\ CT_Drop("user_conversations")
    /\ pc' = [pc EXCEPT ![p] = "ct_create_user_conversations"]
    /\ UNCHANGED <<ring, keyspace, arg, loc, ret, hist>>

\* CREATE TABLE IF NOT EXISTS user_conversations
CT_CreateUserConversations(p) ==
    /\ pc[p] = "ct_create_user_conversations"
    /\ CT_Create("user_conversations")
    /\ pc' = [pc EXCEPT ![p] = "ct_drop_conversations"]
    /\ UNCHANGED <<ring, keyspace, arg, loc, ret, hist>>

\* DROP TABLE IF EXISTS messenger.conversations
CT_DropConversations(p) ==
    /\ pc[p] = "ct_drop_conversations"
    /\ CT_Drop("conversations")
    /\ pc' = [pc EXCEPT ![p] = "ct_create_conversations"]
    /\ UNCHANGED <<ring, keyspace, arg, loc, ret, hist>>

\* CREATE TABLE IF NOT EXISTS conversations; return
CT_CreateConversations(p) ==
    /\ pc[p] = "ct_create_conversations"
    /\ CT_Create("conversations")
    /\ pc' = [pc EXCEPT ![p] = "done"]
    /\ UNCHANGED <<ring, keyspace, arg, loc, ret, hist>>

\* a DROP or CREATE statement of the script is applied and raises all the
\* same; main re-raises
CT_FailApplied(p) ==
    /\ Raises(p)
    /\ \E t \in TableNames :
          \/ pc[p] = "ct_drop_" \o t /\ CT_Drop(t)
          \/ pc[p] = "ct_create_" \o t /\ CT_Create(t)
    /\ UNCHANGED <<ring, keyspace, applied, origin>>

(* ------------------------- failure and return -------------------------- *)
\* variant: a failing create_message deletes the message row it wrote
FailWithRollback(p) ==
    /\ pc[p] \notin {"idle", "done", "failed"}
    /\ failures < MaxFailures
    /\ failures' = failures + 1
    /\ ret' = [ret EXCEPT ![p] = [error |-> pc[p]]]
    /\ pc' = [pc EXCEPT ![p] = "failed"]
    /\ messages' = IF pc[p] \in {"cm_check_conversation", "cm_write_summary"}
                   THEN {r \in messages : r.message_id # loc[p].id}
                   ELSE messages
    /\ UNCHANGED <<indexes, user_conversations, conversations, env, arg, loc,
                   applied, calls, readAt, before, origin, prev>>

\* the round trip the caller is about to make raises and the store has not
\* applied it: the exception leaves the handler (create_conversation re-raises
\* it from its except clause)
Fail(p) ==
    /\ pc[p] \notin {"idle", "done", "failed"}
    /\ failures < MaxFailures
    /\ failures' = failures + 1
    /\ ret' = [ret EXCEPT ![p] = [error |-> pc[p]]]
    /\ pc' = [pc EXCEPT ![p] = "failed"]
    /\ UNCHANGED <<tables, env, arg, loc, applied, calls, readAt, before, origin, prev>>

\* the statement the caller is about to execute names a table that does not
\* exist: the server rejects it and the exception leaves the handler or the
\* script (a handler called in that state raises at its first statement)
Unconfigured(p) ==
    /\ \E l \in Statements :
          /\ ~Configured(l)
          /\ \/ pc[p] = l /\ arg' = arg
             \/ /\ pc[p] = "idle"
                /\ \E op \in Handlers :
                      /\ FirstStatement(op) = l
                      /\ arg' = [arg EXCEPT ![p] = [op |-> op]]
          /\ ret' = [ret EXCEPT ![p] = [error |-> l]]
    /\ pc' = [pc EXCEPT ![p] = "failed"]
    /\ UNCHANGED <<tables, env, loc, hist>>

\* the caller takes the result; it may start another call
Return(p) ==
    /\ pc[p] \in {"done", "failed"}
    /\ prev' = IF pc[p] = "done" /\ arg[p].op = "create_or_get_conversation"
               THEN [op |-> arg[p].op, user1_id |-> arg[p].user1_id,
                     user2_id |-> arg[p].user2_id, ret |-> ret[p]]
               ELSE NoPrev
    /\ pc' = [pc EXCEPT ![p] = "idle"]
    /\ arg' = [arg EXCEPT ![p] = NoArg]
    /\ loc' = [loc EXCEPT ![p] = NoLoc]
    /\ ret' = [ret EXCEPT ![p] = None]
    /\ readAt' = [readAt EXCEPT ![p] = 0]
    /\ before' = [before EXCEPT ![p] = <<>>]
    /\ UNCHANGED <<tables, env, applied, failures, calls, origin>>

(* --------------------------- specifications ---------------------------- *)
\* MessageModel.create_message
MessageStep(p) ==
    \/ CM_SelectIndex(p) \/ CM_UpdateIndex(p) \/ CM_InsertMessage(p)
    \/ CM_CheckConversation(p) \/ CM_WriteSummary(p)
    \/ FailStart(p, MessageCalls) \/ CM_FailApplied(p)

\* ConversationModel.create_conversation and create_or_get_conversation
ConversationStep(p) ==
    \/ CC_SelectIndex(p) \/ CC_UpdateIndex(p) \/ CC_InsertIdentity(p)
    \/ COG_ProbeOne(p) \/ COG_ProbeTwo(p) \/ COG_GetConversation(p)
    \/ COG_SelectIndex(p) \/ COG_UpdateIndex(p) \/ COG_InsertIdentity(p)
    \/ FailStart(p, CreateCalls) \/ CC_FailApplied(p)
    \/ FailStart(p, PairCalls) \/ COG_FailApplied(p)

\* the handlers that write the store
WriteStep(p) == MessageStep(p) \/ ConversationStep(p) \/ Fail(p) \/ Return(p)

\* the handlers that only read it
ReadStep(p) ==
    \/ GetConversation(p)
    \/ GCM_Count(p) \/ GCM_Select(p)
    \/ GMBT_Count(p) \/ GMBT_Select(p)
    \/ GUC_ScanOne(p) \/ GUC_ScanTwo(p)
    \/ FailStart(p, ReadCalls)

\* scripts/generate_test_data.py, run beside the service
DataStep(p) == GTD_Start(p) \/ GTD_InsertSummary(p) \/ GTD_InsertMessage(p)

\* scripts/setup_db.py, run again on the store in use
SetupStep(p) ==
    \/ CT_CreateKeyspace(p)
    \/ CT_DropIndexes(p) \/ CT_CreateIndexes(p)
    \/ CT_DropMessages(p) \/ CT_CreateMessages(p)
    \/ CT_DropUserConversations(p) \/ CT_CreateUserConversations(p)
    \/ CT_DropConversations(p) \/ CT_CreateConversations(p)
    \/ FailStart(p, SetupCalls) \/ CT_FailApplied(p)

\* Concurrent processes: handlers and scripts interleave freely between
\* round trips.
Next ==
    \E p \in Procs :
        \/ WriteStep(p) \/ ReadStep(p) \/ DataStep(p) \/ GTD_FailApplied(p)
        \/ SetupStep(p) \/ Unconfigured(p)

Spec == Init /\ [][Next]_vars

\* Only the setup script reads the keyspace: without its steps the behaviours
\* are the same for every value of CASSANDRA_KEYSPACE, and are taken with the
\* variable unset, where os.getenv gives its default.
DefaultInit == Init /\ keyspace = DroppedKeyspace

\* The behaviours of Spec between two runs of the setup script in which the
\* processes run the writing handlers only, on the store as the setup script
\* left it.
WriteNext == \E p \in Procs : WriteStep(p)

WriteSpec == DefaultInit /\ [][WriteNext]_vars

\* The behaviours of Spec between two runs of the setup script in which one
\* process issues the calls, of every handler, one after the other, on the
\* store as the setup script left it.
Caller == 1

SeqNext == WriteStep(Caller) \/ ReadStep(Caller)

SeqSpec == DefaultInit /\ [][SeqNext]_vars

\* The behaviours of Spec between two runs of the setup script in which one
\* process sends messages and reads, one call after the other, while the
\* operator's process runs the test data script beside it: the behaviours
\* that fill the messages and user_conversations tables.
\* Operator is the process that runs the script (main of generate_test_data.py).
Operator == 2
DataNext ==
    \/ MessageStep(Caller) \/ Fail(Caller) \/ Return(Caller)
    \/ ReadStep(Caller) \/ DataStep(Operator)

DataSpec == DefaultInit /\ [][DataNext]_vars

(* ------------------------------ claims --------------------------------- *)
\* the step in which the call of p returns
Returns(p) == pc[p] # "done" /\ pc'[p] = "done"

IsCOG(a) == a.op = "create_or_get_conversation"
IsCM(a) == a.op = "create_message"

\* C1 (as claimed): when create_or_get_conversation is called twice in a row
\* with the same two users, in the same or the swapped order, both calls
\* return a record, and the two records carry the same conversation_id.
C1_SameConversationTwice ==
    (/\ pc[Caller] = "done"
     /\ IsCOG(arg[Caller])
     /\ IsCOG(prev)
     /\ {prev.user1_id, prev.user2_id} = {arg[Caller].user1_id, arg[Caller].user2_id})
    => /\ prev.ret # None
       /\ ret[Caller] # None
       /\ ret[Caller].conversation_id = prev.ret.conversation_id

\* what C2 asks of a state in which the call has returned
SummaryShowsMessage ==
    (pc[Caller] = "done" /\ IsCM(arg[Caller]))
    => LET c == get_conversation(arg[Caller].conversation_id)
       IN  /\ c # None
           /\ c.last_message_content = arg[Caller].content
           /\ c.last_message_at = ret[Caller].timestamp

\* C2 (as claimed): when a create_message call returns, get_conversation of
\* its conversation reports the content of the message and, as last_timestamp,
\* the timestamp of the returned message record, whether the call found a
\* summary row or not.
\* It is asked of the state in which the call returns.
C2_SummaryShowsMessage ==
    [][Returns(Caller) => SummaryShowsMessage']_vars

\* the pages 1..last of get_conversation_messages, one after the other
RECURSIVE MessagePages(_, _, _, _)
MessagePages(c, limit, page, last) ==
    IF page > last THEN <<>>
    ELSE get_conversation_messages(c, page, limit)[1] \o MessagePages(c, limit, page + 1, last)

\* ceil(total / limit)
PageCount(total, limit) == (total + limit - 1) \div limit

NewestFirst(msgs) ==
    \A i, j \in 1..Len(msgs) : i < j => msgs[i].created_at >= msgs[j].created_at

EachOnce(msgs, rows, c) ==
    /\ Len(msgs) = Cardinality(rows)
    /\ \A r \in rows : \E i \in 1..Len(msgs) : msgs[i] = MessageDict(r, c)

\* what C3 asks of the result res of a call with arguments a, in the state
\* of the store in which the call returns
PagesTileConversation(a, res) ==
    LET c     == a.conversation_id
        limit == a.limit
        rows  == {r \in messages : r.conversation_id = c}
        total == res[2]
        last  == PageCount(total, limit)
    IN  /\ NewestFirst(res[1])
        /\ res = get_conversation_messages(c, a.page, limit)
        /\ \A page \in 1..last :
              NewestFirst(get_conversation_messages(c, page, limit)[1])
        /\ EachOnce(MessagePages(c, limit, 1, last), rows, c)

\* C3: when a get_conversation_messages call returns, its page is sorted by
\* timestamp descending, as is every page of that conversation at that limit,
\* and the pages 1..ceil(total/limit) together hold every message row of the
\* conversation exactly once.
\* It is asked of the state in which the call returns.
C3_PagesTileConversation ==
    [][(Returns(Caller) /\ arg[Caller].op = "get_conversation_messages")
       => PagesTileConversation(arg[Caller], ret'[Caller])]_vars

\* C3 witness: a second page has been returned with a message on it, from a
\* conversation whose messages carry different timestamps.
C3_Witness ==
    /\ pc[Caller] = "done"
    /\ arg[Caller].op = "get_conversation_messages"
    /\ arg[Caller].page = 2
    /\ ret[Caller][1] # <<>>
    /\ \E r, o \in messages :
          /\ r.conversation_id = arg[Caller].conversation_id
          /\ o.conversation_id = arg[Caller].conversation_id
          /\ r.timestamp # o.timestamp

HoldsId(p) == pc[p] # "idle" /\ loc[p].id # 0

CounterOf(p) == IF IsCM(arg[p]) THEN "message_id" ELSE "conversation_id"

\* a caller holds an id computed from a counter it read and its increment has
\* not been applied: it is about to send it, or the increment raised and no
\* increment has been applied since the caller read the counter
BeforeIncrement(p) ==
    \/ pc[p] \in {"cm_update_index", "cc_update_index", "cog_update_index"}
    \/ /\ pc[p] = "failed"
       /\ ret[p].error \in {"cm_update_index", "cc_update_index", "cog_update_index"}
       /\ applied[CounterOf(p)] = readAt[p]

\* C4: a caller's id is the counter value it read plus 1, whatever the other
\* callers do: two callers that read the same counter with no increment applied
\* in between hold the same id, and nothing stops either of them.
C4_SameReadSameId ==
    /\ \A p \in Procs : HoldsId(p) => loc[p].id = readAt[p] + 1
    /\ \A p, q \in Procs :
          (/\ p # q /\ HoldsId(p) /\ HoldsId(q)
           /\ CounterOf(p) = CounterOf(q)
           /\ readAt[p] = readAt[q])
          => loc[p].id = loc[q].id

\* C4 witness: two create_message calls that read the counter before either
\* increment have both returned, with the same message_id.
C4_Witness ==
    \E p, q \in Procs :
        /\ p # q
        /\ pc[p] = "done" /\ pc[q] = "done"
        /\ IsCM(arg[p]) /\ IsCM(arg[q])
        /\ readAt[p] = readAt[q]
        /\ ret[p].message_id = ret[q].message_id

\* the pages 1..last of get_user_conversations, one after the other
RECURSIVE ConversationPages(_, _, _, _)
ConversationPages(u, limit, page, last) ==
    IF page > last THEN <<>>
    ELSE get_user_conversations(u, page, limit)[1]
         \o ConversationPages(u, limit, page + 1, last)

\* C5 (as claimed): across the pages of get_user_conversations the
\* conversations come most recent first: last_message_at never increases.
C5_MostRecentFirst ==
    \A u \in Users, limit \in 1..MaxCalls :
        LET total == get_user_conversations(u, 1, limit)[2]
            all   == ConversationPages(u, limit, 1, PageCount(total, limit))
        IN  \A i, j \in 1..Len(all) :
                i < j => all[i].last_message_at >= all[j].last_message_at

\* the unordered pair of users of a call or of an identity row
PairOfCall(a) == {a.user1_id, a.user2_id}
PairOfRow(r) == {r.sender_id, r.receiver_id}

\* pairs for which a create_or_get_conversation call inserted an identity row
CreatedPairs == {PairOfRow(o) : o \in {x \in origin : IsCOG(x)}}

\* pairs for which create_conversation inserted an identity row
DirectPairs == {PairOfRow(o) : o \in {x \in origin : ~IsCOG(x)}}

\* C6: once create_or_get_conversation has created the conversation of a pair,
\* every step of a later call for that pair, in either order, leaves the
\* conversations table and the counters as they are, and the pair keeps
\* exactly one identity row (no create_conversation call having added one).
C6_RetrievesInsteadOfCreating ==
    [][(IsCOG(arg'[Caller]) /\ PairOfCall(arg'[Caller]) \in CreatedPairs)
       => /\ conversations' = conversations
          /\ indexes' = indexes
          /\ PairOfCall(arg'[Caller]) \notin DirectPairs
             => Cardinality({r \in conversations' :
                               PairOfRow(r) = PairOfCall(arg'[Caller])}) = 1]_vars

\* C6 witness: a call with the users in the swapped order has returned after
\* finding the identity row an earlier create_or_get_conversation call created.
C6_Witness ==
    /\ pc[Caller] = "done"
    /\ IsCOG(arg[Caller])
    /\ PairOfCall(arg[Caller]) \in CreatedPairs
    /\ loc[Caller].output_one = <<>>
    /\ loc[Caller].output_two # <<>>
    /\ loc[Caller].id = 0

\* the pages 1..last of get_messages_before_timestamp, one after the other
RECURSIVE OlderPages(_, _, _, _, _)
OlderPages(c, t, limit, page, last) ==
    IF page > last THEN <<>>
    ELSE get_messages_before_timestamp(c, t, page, limit)[1]
         \o OlderPages(c, t, limit, page + 1, last)

\* what C7 asks of the result res of a call with arguments a, in the state
\* of the store in which the call returns
OlderMessagesOnly(a, res) ==
    LET c     == a.conversation_id
        t     == a.before_timestamp
        limit == a.limit
        got   == res[1]
        older == {r \in messages : r.conversation_id = c /\ r.timestamp < t}
        total == res[2]
        all   == OlderPages(c, t, limit, 1, PageCount(total, limit))
        full  == get_conversation_messages(c, 1, Cardinality(messages) + 1)[1]
    IN  /\ total = Cardinality(older)
        /\ \A i \in 1..Len(got) :
              /\ got[i].created_at < t
              /\ \E k \in 1..Len(full) : full[k] = got[i]
        /\ \A i \in 1..Len(all) : all[i].created_at < t
        /\ EachOnce(all, older, c)
        /\ NewestFirst(all)

\* C7 (as claimed): when a get_messages_before_timestamp call returns, every
\* message on its page has timestamp < t and is a message of the full listing;
\* its total is the number of messages of the conversation with timestamp < t,
\* and the pages at that limit together hold each of them once, newest first.
\* It is asked of the state in which the call returns.
C7_OlderMessagesOnly ==
    [][(Returns(Caller) /\ arg[Caller].op = "get_messages_before_timestamp")
       => OlderMessagesOnly(arg[Caller], ret'[Caller])]_vars

\* what C7 asks of the result res of a call with arguments a, in the state
\* of the store in which the call returns
OlderMessagesToMillisecond(a, res) ==
    LET c     == a.conversation_id
        t     == a.before_timestamp
        limit == a.limit
        got   == res[1]
        older == {r \in messages : /\ r.conversation_id = c
                                   /\ r.timestamp < StoredTimestamp(t)}
        total == res[2]
        all   == OlderPages(c, t, limit, 1, PageCount(total, limit))
        full  == get_conversation_messages(c, 1, Cardinality(messages) + 1)[1]
    IN  /\ total = Cardinality(older)
        /\ \A i \in 1..Len(got) :
              /\ got[i].created_at < t
              /\ \E k \in 1..Len(full) : full[k] = got[i]
        /\ \A i \in 1..Len(all) : all[i].created_at < t
        /\ EachOnce(all, older, c)
        /\ NewestFirst(all)

\* C7 (amended): the same, the total and the pages counting the messages whose
\* timestamp is less than t cut to whole milliseconds.
\* It is asked of the state in which the call returns.
C7_OlderMessagesToMillisecond ==
    [][(Returns(Caller) /\ arg[Caller].op = "get_messages_before_timestamp")
       => OlderMessagesToMillisecond(arg[Caller], ret'[Caller])]_vars

\* C7 witness: a call whose timestamp is no whole number of milliseconds has
\* returned older messages of a conversation that also holds a message of the
\* millisecond of the timestamp.
C7_Witness ==
    /\ pc[Caller] = "done"
    /\ arg[Caller].op = "get_messages_before_timestamp"
    /\ ret[Caller][2] >= 1
    /\ StoredTimestamp(arg[Caller].before_timestamp) # arg[Caller].before_timestamp
    /\ \E r \in messages :
          /\ r.conversation_id = arg[Caller].conversation_id
          /\ r.timestamp = StoredTimestamp(arg[Caller].before_timestamp)

\* C8 (as claimed): right after a call has created conversation n,
\* get_conversation(n) returns a summary record.
C8_CreationWritesSummary ==
    (/\ pc[Caller] = "done"
     /\ arg[Caller].op \in {"create_conversation", "create_or_get_conversation"}
     /\ loc[Caller].id # 0)
    => get_conversation(ret[Caller].conversation_id) # None

\* the message row of a create_message call
MessageRowOf(p) ==
    [message_id |-> loc[p].id, conversation_id |-> arg[p].conversation_id,
     sender_id |-> arg[p].sender_id, receiver_id |-> arg[p].receiver_id,
     content |-> arg[p].content, timestamp |-> StoredTimestamp(loc[p].created_at)]

AtSummary(p) ==
    \/ pc[p] \in {"cm_check_conversation", "cm_write_summary"}
    \/ pc[p] = "failed" /\ ret[p].error \in {"cm_check_conversation", "cm_write_summary"}

\* the summary row a create_message call writes
SummaryRowOf(p) ==
    [conversation_id |-> arg[p].conversation_id, sender_id |-> arg[p].sender_id,
     receiver_id |-> arg[p].receiver_id,
     last_timestamp |-> StoredTimestamp(loc[p].created_at),
     last_message |-> arg[p].content]

\* C9 (as claimed): create_message has written its message row before it
\* reads or writes the summary; when the summary lookup or the summary
\* statement raises, the call fails, the message row stays and is listed, and
\* the summary row is the one the call found when it started.
C9_MessageSurvivesSummaryFailure ==
    (IsCM(arg[Caller]) /\ AtSummary(Caller))
    => LET c    == arg[Caller].conversation_id
           full == get_conversation_messages(c, 1, Cardinality(messages) + 1)[1]
       IN  /\ MessageRowOf(Caller) \in messages
           /\ \E k \in 1..Len(full) : full[k] = MessageDict(MessageRowOf(Caller), c)
           /\ SelectSummary(c) = before[Caller]

\* C9 (amended): the same, but when it is the summary statement that raised,
\* the summary row is either the one the call found when it started or, the
\* store having applied the statement before the failure was reported, the
\* row of this call's message.
C9_SummaryUnchangedOrWritten ==
    (IsCM(arg[Caller]) /\ AtSummary(Caller))
    => LET c    == arg[Caller].conversation_id
           full == get_conversation_messages(c, 1, Cardinality(messages) + 1)[1]
       IN  /\ MessageRowOf(Caller) \in messages
           /\ \E k \in 1..Len(full) : full[k] = MessageDict(MessageRowOf(Caller), c)
           /\ \/ SelectSummary(c) = before[Caller]
              \/ /\ pc[Caller] = "failed"
                 /\ ret[Caller].error = "cm_write_summary"
                 /\ SelectSummary(c) = <<SummaryRowOf(Caller)>>

\* C9 witness: the summary statement of a call raised on a conversation that
\* had a summary row, and the row is as the call found it.
C9_Witness ==
    /\ pc[Caller] = "failed"
    /\ IsCM(arg[Caller])
    /\ ret[Caller].error = "cm_write_summary"
    /\ before[Caller] # <<>>
    /\ SelectSummary(arg[Caller].conversation_id) = before[Caller]
    /\ before[Caller] # <<SummaryRowOf(Caller)>>

\* the stored value of the caller's counter when the caller read it (0 when
\* the row was absent): nothing but the caller's own increment changed it since
CounterValueAtRead(p) ==
    LET v == IF CounterOf(p) \in DOMAIN indexes THEN indexes[CounterOf(p)] ELSE 0
    IN  IF BeforeIncrement(p) THEN v ELSE v - 1

\* C10: with one caller, each allocation returns the counter value it read
\* plus 1 (1 when the counter row is absent), and the k-th allocation of a
\* counter returns k.
C10_SequentialIds ==
    HoldsId(Caller)
    => /\ loc[Caller].id = readAt[Caller] + 1
       /\ readAt[Caller] = CounterValueAtRead(Caller)
       /\ loc[Caller].id = IF BeforeIncrement(Caller)
                           THEN applied[CounterOf(Caller)] + 1
                           ELSE applied[CounterOf(Caller)]

\* C10 witness: the second allocation of the message counter returned 2.
C10_Witness ==
    /\ pc[Caller] = "done"
    /\ IsCM(arg[Caller])
    /\ ret[Caller].message_id = 2

\* the stored value of a counter in a state of the indexes table (0: no row)
CounterValueIn(idx, n) == IF n \in DOMAIN idx THEN idx[n] ELSE 0

\* the round trips that increment counter n
IncrementPcs(n) ==
    IF n = "message_id" THEN {"cm_update_index"}
    ELSE {"cc_update_index", "cog_update_index"}

\* C11: under any interleaving, the stored value of each counter equals the
\* number of increment statements applied for its name (0 while the row is
\* absent), never decreases in a step, and changes only in a step that is the
\* increment round trip of an id allocation for that name.
C11_CounterCountsIncrements ==
    [][\A n \in CounterNames :
          /\ CounterValueIn(indexes, n) = applied[n]
          /\ CounterValueIn(indexes', n) = applied'[n]
          /\ CounterValueIn(indexes', n) >= CounterValueIn(indexes, n)
          /\ CounterValueIn(indexes', n) # CounterValueIn(indexes, n)
             => /\ CounterValueIn(indexes', n) = CounterValueIn(indexes, n) + 1
                /\ \E p \in Procs : pc[p] \in IncrementPcs(n) /\ pc'[p] # pc[p]]_vars

\* C11 witness: two creating calls that read the conversation counter before
\* either increment hold the same id, and both increments have been applied.
C11_Witness ==
    /\ CounterValueIn(indexes, "conversation_id") = 2
    /\ \E p, q \in Procs :
          /\ p # q
          /\ pc[p] = "done" /\ pc[q] = "done"
          /\ loc[p].id = 1 /\ loc[q].id = 1
          /\ ~IsCM(arg[p]) /\ ~IsCM(arg[q])

\* the first writing call of the run was create_or_get_conversation(1, 2), it
\* created conversation 1, and no round trip has raised
ScenarioCreated ==
    /\ failures = 0
    /\ origin = {[conversation_id |-> 1, sender_id |-> 1, receiver_id |-> 2,
                  op |-> "create_or_get_conversation"]}

\* ... and the second was create_message(1, 1, 2, "hi"), which has returned
ScenarioSent ==
    /\ ScenarioCreated
    /\ calls = 2
    /\ pc[Caller] \in {"idle", "done", "guc_scan_two"}
    /\ Cardinality(messages) = 1
    /\ \A r \in messages :
          /\ r.conversation_id = 1 /\ r.sender_id = 1
          /\ r.receiver_id = 2 /\ r.content = "hi"

\* C12: run from the empty store, create_or_get_conversation(1, 2) returns
\* conversation_id 1 with last_message_content None; then
\* create_message(1, 1, 2, "hi") returns message_id 1; then
\* get_conversation(1) reports last_message "hi"; and
\* get_conversation_messages(1, page 1, limit 20) is (one message with id 1, 1).
C12_Scenario ==
    /\ (/\ calls = 1 /\ pc[Caller] = "done" /\ IsCOG(arg[Caller])
        /\ arg[Caller].user1_id = 1 /\ arg[Caller].user2_id = 2)
       => /\ ret[Caller] # None
          /\ ret[Caller].conversation_id = 1
          /\ ret[Caller].sender_id = 1 /\ ret[Caller].receiver_id = 2
          /\ ret[Caller].last_message_content = NoneText
    /\ (/\ ScenarioSent /\ pc[Caller] = "done" /\ IsCM(arg[Caller]))
       => /\ ret[Caller].message_id = 1
          /\ ret[Caller].content = "hi"
          /\ ret[Caller].conversation_id = 1
    /\ (/\ ScenarioSent /\ pc[Caller] = "done"
        /\ arg[Caller].op = "get_conversation" /\ arg[Caller].conversation_id = 1)
       => /\ ret[Caller] # None
          /\ ret[Caller].conversation_id = 1
          /\ ret[Caller].last_message_content = "hi"
    /\ ScenarioSent
       => LET listing == get_conversation_messages(1, 1, DefaultLimit)
          IN  /\ listing[2] = 1
              /\ Len(listing[1]) = 1
              /\ listing[1][1].id = 1
              /\ listing[1][1].content = "hi"
              /\ listing[1][1].sender_id = 1 /\ listing[1][1].receiver_id = 2
              /\ get_conversation(1).last_message_at = listing[1][1].created_at
              /\ (/\ pc[Caller] = "done"
                  /\ arg[Caller].op = "get_conversation_messages"
                  /\ arg[Caller].conversation_id = 1
                  /\ arg[Caller].page = 1 /\ arg[Caller].limit = 2)
                 => ret[Caller] = listing

\* C12 witness: after the two writing calls of the scenario, the first page
\* of conversation 1 has been returned.
C12_Witness ==
    /\ ScenarioSent
    /\ pc[Caller] = "done"
    /\ arg[Caller].op = "get_conversation_messages"
    /\ arg[Caller].conversation_id = 1
    /\ arg[Caller].page = 1
    /\ ret[Caller][2] = 1

\* what C13 asks of the result res of a call with arguments a, in the state
\* of the store in which the call returns
EmptyResult(a, res) ==
    /\ (a.op = "get_conversation_messages"
        /\ ~\E r \in messages : r.conversation_id = a.conversation_id)
       => res = << <<>>, 0 >>
    /\ (a.op = "get_messages_before_timestamp"
        /\ ~\E r \in messages : /\ r.conversation_id = a.conversation_id
                                 /\ r.timestamp < a.before_timestamp)
       => res = << <<>>, 0 >>

\* C13: a get_conversation_messages call on a conversation with no message
\* row, and a get_messages_before_timestamp call with no message row older
\* than its timestamp, return the empty list with total 0, at every page and
\* limit, as a normal result.
\* It is asked of the state in which the call returns.
C13_EmptyResult ==
    [][(Returns(Caller) /\ arg[Caller].op \in {"get_conversation_messages",
                                              "get_messages_before_timestamp"})
       => EmptyResult(arg[Caller], ret'[Caller])]_vars

\* C13 witness: page 2 of the older messages was asked of a conversation that
\* holds messages, none of them older than the timestamp.
C13_Witness ==
    /\ pc[Caller] = "done"
    /\ arg[Caller].op = "get_messages_before_timestamp"
    /\ arg[Caller].page = 2
    /\ ret[Caller] = << <<>>, 0 >>
    /\ \E r \in messages : r.conversation_id = arg[Caller].conversation_id

\* the message rows of conversation c
MessagesOf(c) == {r \in messages : r.conversation_id = c}

\* the summary row of c shows a message of c with the greatest timestamp
SummaryShowsLatest(c) ==
    /\ SelectSummary(c) # <<>>
    /\ \E r \in MessagesOf(c) :
          /\ \A o \in MessagesOf(c) : o.timestamp <= r.timestamp
          /\ SelectSummary(c)[1].last_timestamp = r.timestamp
          /\ SelectSummary(c)[1].last_message = r.content

\* no caller is inside a create_message call on c
NoMessageCallRunning(c) == MessageCallers(c) = {}

\* the message rows of c that hold a content passed to create_message
CreatedMessagesOf(c) == {r \in MessagesOf(c) : \E a \in MessageArgs : r.content = a[4]}

\* C14 (as claimed): whenever no create_message call on conversation c is in
\* progress and c has a message written by create_message, the summary row of
\* c carries the content and the timestamp of the message of c with the
\* greatest timestamp, under every interleaving of create_message calls.
C14_SummaryIsLatestMessage ==
    \A c \in ConvArgs :
        (NoMessageCallRunning(c) /\ CreatedMessagesOf(c) # {}) => SummaryShowsLatest(c)

\* the step in which the summary statement of the create_message call of p
\* is applied: the call returns, or the statement changes the table and its
\* failure is reported
AppliesSummary(p) ==
    /\ pc[p] = "cm_write_summary"
    /\ \/ pc'[p] = "done"
       \/ pc'[p] = "failed" /\ user_conversations' # user_conversations

\* the summary rows of conversation c in the table uc (none or one)
SummaryRows(uc, c) == {s \in uc : s.conversation_id = c}

\* C14 (amended): under every interleaving of create_message calls, failing
\* calls included, the summary row carries the last summary statement applied:
\* each applied summary statement leaves in the summary row of its
\* conversation the content and the stored timestamp of its own call's
\* message; no other step changes the summary row of a conversation (there is
\* none while no summary statement has been applied); and in
\* every state the last_timestamp of a summary row is the greatest timestamp
\* among the message rows of its conversation unless a message row of the
\* conversation is newer than it.
C14_SummaryIsLastWrite ==
    [][ /\ \A p \in Procs :
              AppliesSummary(p)
              => \E s \in SummaryRows(user_conversations', arg[p].conversation_id) :
                    /\ s.last_message = arg[p].content
                    /\ s.last_timestamp = StoredTimestamp(loc[p].created_at)
        /\ \A c \in ConvArgs :
              (\A p \in Procs : ~(AppliesSummary(p) /\ arg[p].conversation_id = c))
              => SummaryRows(user_conversations', c) = SummaryRows(user_conversations, c)
        /\ \A s \in user_conversations' :
              (\A r \in messages' :
                  r.conversation_id = s.conversation_id => r.timestamp <= s.last_timestamp)
              => \E r \in messages' :
                    /\ r.conversation_id = s.conversation_id
                    /\ r.timestamp = s.last_timestamp
      ]_vars

\* C14 witness: two create_message calls on one conversation overlapped (both
\* read the counter before either incremented it), stamped their messages in
\* different milliseconds, both returned, and the summary row shows the
\* message with the greatest timestamp.
C14_Witness ==
    \E p, q \in Procs :
        /\ p # q
        /\ pc[p] = "done" /\ pc[q] = "done"
        /\ IsCM(arg[p]) /\ IsCM(arg[q])
        /\ arg[p].conversation_id = arg[q].conversation_id
        /\ readAt[p] = readAt[q]
        /\ StoredTimestamp(loc[p].created_at) < StoredTimestamp(loc[q].created_at)
        /\ SummaryShowsLatest(arg[p].conversation_id)

\* the create_message call of p has run its INSERT INTO messages
WroteMessage(p) == IsCM(arg[p]) /\ (AtSummary(p) \/ pc[p] = "done")

\* C15 (as claimed): once a create_message call has written its message row,
\* a row with its message_id, conversation_id, sender, receiver, content and
\* timestamp is in the messages table in every later state, under any
\* interleaving (also of calls that hold the same message_id and timestamp in
\* the same conversation).
C15_MessageRowsStay ==
    \A p \in Procs : WroteMessage(p) => MessageRowOf(p) \in messages

\* C16 (as claimed): an identity row, once inserted by create_conversation or
\* create_or_get_conversation, is in the conversations table unchanged after
\* every later step of any interleaving (also when two concurrent creations
\* by the same first user hold the same conversation_id).
C16_IdentityRowsWriteOnce ==
    [][\A r \in conversations : r \in conversations']_vars

\* C17 (as claimed): while every identity row was inserted by
\* create_or_get_conversation, the conversations table holds at most one row
\* for each unordered pair of users, under every interleaving of the calls.
C17_OneIdentityPerPair ==
    DirectPairs = {}
    => \A r, o \in conversations : PairOfRow(r) = PairOfRow(o) => r = o

\* C18 (as claimed): in every reachable state, every summary row with a
\* last_message has a message row with its conversation_id, with timestamp
\* equal to its last_timestamp and content equal to its last_message.
C18_SummaryRefersToMessage ==
    \A s \in user_conversations :
        s.last_message # NoneText
        => \E r \in messages :
              /\ r.conversation_id = s.conversation_id
              /\ r.timestamp = s.last_timestamp
              /\ r.content = s.last_message

\* conversation c is on some page of get_user_conversations(u, ., limit)
Listed(c, u, limit) ==
    LET total == get_user_conversations(u, 1, limit)[2]
        all   == ConversationPages(u, limit, 1, PageCount(total, limit))
    IN  \E i \in 1..Len(all) : all[i].id = c

\* every message row of c is between the same two users, in either direction
OnePair(c) == \A r, o \in MessagesOf(c) : PairOfRow(r) = PairOfRow(o)

\* the summary row of c names the users of the messages of c, and c is listed
\* for both of them
SummaryOfParticipants(c) ==
    /\ \A r \in MessagesOf(c) : PairOfRow(SelectSummary(c)[1]) = PairOfRow(r)
    /\ \A u \in PairOfRow(SelectSummary(c)[1]), limit \in Limits : Listed(c, u, limit)

\* a create_message call of the caller has just ended: it returned or failed
AfterMessageCall == pc[Caller] \in {"done", "failed"} /\ IsCM(arg[Caller])

\* C19 (as claimed): after every create_message call, returned or failed, for
\* every conversation c that has message rows, all of them between the same
\* two participants (in either direction): the summary row of c exists, has
\* those two as {sender_id, receiver_id}, and c is listed by
\* get_user_conversations (over all pages) for both of them.
C19_ParticipantsKeepConversation ==
    AfterMessageCall
    => \A c \in ConvArgs :
          (MessagesOf(c) # {} /\ OnePair(c))
          => SelectSummary(c) # <<>> /\ SummaryOfParticipants(c)

\* C19 (amended): in the same states, a summary row of c that exists has the
\* two participants as {sender_id, receiver_id} and c is listed for both of
\* them; and a create_message call that returned leaves its conversation
\* with a summary row.  (A conversation on which no summary statement has
\* been applied, every call having failed at or before it, has message rows
\* and no summary row.)
C19_ParticipantsKeepSummary ==
    AfterMessageCall
    => /\ \A c \in ConvArgs :
             (MessagesOf(c) # {} /\ OnePair(c) /\ SelectSummary(c) # <<>>)
             => SummaryOfParticipants(c)
       /\ pc[Caller] = "done" => SelectSummary(arg[Caller].conversation_id) # <<>>

\* C19 witness: a create_message call returned on a conversation that holds
\* messages of its two participants in both directions.
C19_Witness ==
    /\ pc[Caller] = "done"
    /\ IsCM(arg[Caller])
    /\ OnePair(arg[Caller].conversation_id)
    /\ \E r, o \in MessagesOf(arg[Caller].conversation_id) :
          r.sender_id # o.sender_id

\* what C20 asks of the result res of a call with arguments a, in the state
\* of the store in which the call returns
ListedOnce(a, res) ==
    loc[Caller].output_one = SelectSummaryBySender(a.user_id)
    => LET u     == a.user_id
           limit == a.limit
           total == res[2]
           all   == ConversationPages(u, limit, 1, PageCount(total, limit))
       IN  /\ total = Cardinality({r \in user_conversations :
                                     r.sender_id = u \/ r.receiver_id = u})
           /\ \A i, j \in 1..Len(all) : all[i].id = all[j].id => i = j

\* C20 (as claimed): when a get_user_conversations call returns from a summary
\* table that did not change between its two scans, its total is
\* the number of summary rows in which the user is sender or receiver, and
\* the pages at its limit together list no conversation_id twice (also when a
\* row has the user as both sender and receiver).
\* It is asked of the state in which the call returns.
C20_ListedOnce ==
    [][(Returns(Caller) /\ arg[Caller].op = "get_user_conversations")
       => ListedOnce(arg[Caller], ret'[Caller])]_vars

\* what C21 asks of the result res of a call with arguments a, in the state
\* of the store in which the call returns
TotalAndSliceOfConcatenation(a, res) ==
    LET u      == a.user_id
        limit  == a.limit
        one    == loc[Caller].output_one
        two    == SelectSummaryByReceiver(u)
        n      == Len(one) + Len(two)
        at(k)  == IF k <= Len(one) THEN one[k] ELSE two[k - Len(one)]
        offset == (a.page - 1) * limit
        got    == res[1]
    IN  /\ res[2] = n
        /\ \A page \in Pages, l \in Limits :
              PaginateConversations(one, two, page, l)[2] = n
        /\ Len(got) = Max(0, Min(limit, n - offset))
        /\ \A i \in 1..Len(got) : got[i] = ConversationDict(at(offset + i))
        /\ n = 0 => res = << <<>>, 0 >>

\* C21: when a get_user_conversations(u, page, limit) call returns, its total
\* is the number of rows its sender_id = u scan fetched plus the number of rows
\* its receiver_id = u scan fetched, the same at every page and limit, and its list is
\* the part of the concatenation of the two scans at the 0-based positions
\* (page-1)*limit up to, not including, (page-1)*limit + limit; with a scan or
\* both scans empty the call returns all the same (both empty: the empty list
\* and total 0).
\* It is asked of the state in which the call returns.
C21_TotalAndSliceOfConcatenation ==
    [][(Returns(Caller) /\ arg[Caller].op = "get_user_conversations")
       => TotalAndSliceOfConcatenation(arg[Caller], ret'[Caller])]_vars

\* C21 witness: page 2 was returned with a conversation on it, from a
\* concatenation to which both scans contributed rows.
C21_Witness ==
    /\ pc[Caller] = "done"
    /\ arg[Caller].op = "get_user_conversations"
    /\ arg[Caller].page = 2
    /\ ret[Caller][1] # <<>>
    /\ SelectSummaryBySender(arg[Caller].user_id) # <<>>
    /\ SelectSummaryByReceiver(arg[Caller].user_id) # <<>>

====
